---- MODULE Spec2Model ----
(***************************************************************************)
(* Model of gn-ftp-magento: the time-window scheduler                      *)
(* (src/app/scheduler/scheduler.py), the outbound and inbound cycles and   *)
(* their passes (src/app/services/file_handler.py) and the StockSync       *)
(* context (src/app/services/stock_sync.py) with its two managers.         *)
(*                                                                         *)
(* Time is an integer count of clock slots.  A calendar day has DayLen     *)
(* slots, a month DaysPerMonth days, a year NumMonths months; the time of  *)
(* day, the date and the month are derived from the clock the way          *)
(* datetime.now().time(), .date() and .month derive them.                  *)
(***************************************************************************)
EXTENDS Integers, Sequences, FiniteSets, TLC

----------------------------------------------------------------------------
(* Bounds of the model *)

DayLen == 4
DaysPerMonth == 1
NumMonths == 2
MaxTime == 8
MaxGap == 2
MaxDur == 1
MaxDelay == 2

----------------------------------------------------------------------------
(* Python's None, for the two optional fields of Scheduler *)
None == -1

Times == 0..MaxTime
TimesOfDay == 0..(DayLen - 1)
Months == 1..NumMonths

(* datetime.now().time() / .date() / .month *)
TimeOfDay(t) == t % DayLen
DateOf(t) == t \div DayLen
MonthOf(t) == ((DateOf(t) \div DaysPerMonth) % NumMonths) + 1

VARIABLES
    config,                    \* self.config (read only after construction)
    now,                       \* the wall clock
    pc,                        \* where Scheduler.start is
    first,                     \* the job scheduled at line 124 is not due yet
    post_job_done,             \* self.post_job_done
    window_closed_timestamp,   \* self.window_closed_timestamp
    ev,                        \* what the last step did
    inv0, inv1,                \* the last two invocations of the post-job
    ticksSince,                \* policy ticks since the last invocation (capped)
    invDates, okDates,         \* dates of ticks that invoked / completed the post-job
    closedSince,               \* first of the current run of ticks observing the window closed
    everOpen,                  \* some tick of this process observed the window open
    in_progress,               \* time the callback called last still needs to return
    fs,                        \* the local directories: directory -> name -> file
    existing,                  \* the directories that exist
    pass,                      \* the arguments of the running _process_folder call
    fpc,                       \* where _process_folder is
    all_files,                 \* its all_files, in enumeration order
    idx,                       \* the position of its running loop
    files_to_archive,          \* its files_to_archive
    snap,                      \* the files of source_dir when it was enumerated
    outcome,                   \* per name, what the pass did with the enumerated file
    prev,                      \* what the previous _process_folder call on the directory did
    route,                     \* one routing decision of the upload loop
    out,                       \* where sync_local_folder_to_sftp is, and what it did
    remote,                    \* the remote folders: folder -> name -> file
    inb,                       \* where sync_sftp_to_local_folder is, and what it did
    stock                      \* a StockSync context and its two managers

schedVars == <<config, now, pc, first, post_job_done, window_closed_timestamp,
               ev, inv0, inv1, ticksSince, invDates, okDates, closedSince, everOpen,
               in_progress>>

fileVars == <<fs, existing, pass, fpc, all_files, idx, files_to_archive, snap, outcome>>

cycleVars == <<prev, route, out, remote, inb, stock>>

vars == <<schedVars, fileVars, cycleVars>>

----------------------------------------------------------------------------
(* Scheduler: pure methods *)

is_within_time_window_NoWrap(cfg, t) ==
    cfg.start <= TimeOfDay(t) /\ TimeOfDay(t) <= cfg.end

is_within_time_window(cfg, t) ==
    IF cfg.start <= cfg.end
    THEN cfg.start <= TimeOfDay(t) /\ TimeOfDay(t) <= cfg.end
    ELSE TimeOfDay(t) >= cfg.start \/ TimeOfDay(t) <= cfg.end

is_allowed_month(cfg, t) == MonthOf(t) \in cfg.months

should_run_NoMonth(cfg, t) ==
    IF ~cfg.enabled THEN FALSE
    ELSE IF ~is_within_time_window(cfg, t) THEN FALSE
    ELSE TRUE

should_run(cfg, t) ==
    IF ~cfg.enabled THEN FALSE
    ELSE IF ~is_allowed_month(cfg, t) THEN FALSE
    ELSE IF ~is_within_time_window(cfg, t) THEN FALSE
    ELSE TRUE


----------------------------------------------------------------------------
(* file_handler.py: file names, routing rules, directories *)

MaxNames == 4

F_EDI == <<"E", "D", "I", "E", "E", "0", "7", "_", "x">>
F_REC == <<"R", "E", "C", "E", "0", "7">>
F_NOM == <<"N", "O", "M", "A", "T", "C", "H">>
F_LOW == <<"p", "r", "o", "d", "e", "1", "2">>
F_TWO == <<"E", "D", "I", "S", "E", "0", "8", "E", "D", "I", "E", "E", "0", "9">>

AllNames == <<F_EDI, F_LOW, F_NOM, F_REC, F_TWO>>
Names == { AllNames[i] : i \in 1..(IF MaxNames < Len(AllNames) THEN MaxNames ELSE Len(AllNames)) }

Digits == {"0", "1", "2", "3", "4", "5", "6", "7", "8", "9"}

(* re.IGNORECASE *)
Upper(c) ==
    CASE c = "p" -> "P" [] c = "r" -> "R" [] c = "o" -> "O"
      [] c = "d" -> "D" [] c = "e" -> "E" [] c = "x" -> "X"
      [] OTHER -> c

(* a compiled pattern PREFIX(\d{2}) matches filename at position i *)
MatchesAt(prefix, filename, i) ==
    /\ i + Len(prefix) + 1 <= Len(filename)
    /\ \A k \in 1..Len(prefix) : Upper(filename[i + k - 1]) = prefix[k]
    /\ filename[i + Len(prefix)] \in Digits
    /\ filename[i + Len(prefix) + 1] \in Digits

(* pattern.search(filename): the leftmost match position, 0 for no match *)
search(prefix, filename) ==
    LET hits == { i \in 1..Len(filename) : MatchesAt(prefix, filename, i) }
    IN  IF hits = {} THEN 0
        ELSE CHOOSE i \in hits : \A j \in hits : i <= j

(* match.group(1) *)
group1(prefix, filename, i) ==
    <<filename[i + Len(prefix)], filename[i + Len(prefix) + 1]>>

CodePlaceholder == "{code}"

(* dest_template.format(code=code) *)
RECURSIVE format(_, _)
format(template, code) ==
    IF template = <<>> THEN <<>>
    ELSE (IF Head(template) = CodePlaceholder THEN code ELSE <<Head(template)>>)
             \o format(Tail(template), code)

(* lines 153-157 and 161: the rules, in declaration order *)
main_folder_rules ==
    << [prefix |-> <<"E", "D", "I", "E", "E">>, template |-> <<"E", "{code}">>],
       [prefix |-> <<"E", "D", "I", "S", "E">>, template |-> <<"E", "{code}">>],
       [prefix |-> <<"P", "R", "O", "D", "E">>, template |-> <<"E", "{code}">>] >>

devolucao_folder_rules ==
    << [prefix |-> <<"R", "E", "C", "E">>, template |-> <<"E", "{code}">>] >>

NoDest == <<>>

RECURSIVE get_remote_destination_Last(_, _)
get_remote_destination_Last(filename, rules) ==
    IF rules = <<>> THEN NoDest
    ELSE LET rule == rules[Len(rules)]
             m == search(rule.prefix, filename)
         IN  IF m # 0
             THEN IF \E k \in 1..Len(rule.template) : rule.template[k] = CodePlaceholder
                  THEN format(rule.template, group1(rule.prefix, filename, m))
                  ELSE rule.template
             ELSE get_remote_destination_Last(filename, SubSeq(rules, 1, Len(rules) - 1))

(* _get_remote_destination, lines 12-25; NoDest stands for None *)
RECURSIVE get_remote_destination(_, _)
get_remote_destination(filename, rules) ==
    IF rules = <<>> THEN NoDest
    ELSE LET rule == Head(rules)
             m == search(rule.prefix, filename)
         IN  IF m # 0
             THEN IF \E k \in 1..Len(rule.template) : rule.template[k] = CodePlaceholder
                  THEN format(rule.template, group1(rule.prefix, filename, m))
                  ELSE rule.template
             ELSE get_remote_destination(filename, Tail(rules))

(* A directory maps a name to the file it holds under that name; NoFile
   when it holds none.  OldFile is a file archived by an earlier cycle,
   NewFile one waiting in a source directory. *)
NoFile == "no file"
OldFile == "old file"
NewFile == "new file"

Dirs == {"sync", "devolucao", "archive"}
EmptyDir == [n \in Names |-> NoFile]
Present(dir) == { n \in Names : dir[n] # NoFile }

NoPass == [source |-> "sync", rules |-> <<>>]

FilesIdle ==
    /\ fs = [d \in Dirs |-> EmptyDir]
    /\ existing = Dirs
    /\ pass = NoPass
    /\ fpc = "idle"
    /\ all_files = <<>>
    /\ idx = 0
    /\ files_to_archive = <<>>
    /\ snap = EmptyDir
    /\ outcome = [n \in Names |-> "none"]

PrevIdle == [runs |-> 0, listed |-> FALSE, present |-> {},
             outcome |-> <<>>, archived |-> {}]
RouteIdle == [pc |-> "idle", filename |-> <<>>, rules |-> <<>>,
              remote_subfolder |-> <<>>, remote_path |-> <<>>]
OutIdle == [pc |-> "idle", at_entry |-> {}, listed |-> FALSE, attempts |-> 0,
            session |-> "none", passes |-> <<>>, uploads |-> 0,
            upload_failures |-> 0, failed |-> FALSE, result |-> "none"]
RemoteIdle == <<>>
InbIdle == [pc |-> "idle", db |-> "none", session |-> "none", codes |-> <<>>,
            ci |-> 0, fi |-> 0, files_in_folder |-> <<>>, k |-> 0,
            polled |-> <<>>, download |-> <<>>, deleted |-> {},
            local |-> {}, empty_seen |-> FALSE, failed |-> FALSE,
            result |-> "none"]
StockIdle == [pc |-> "idle", db |-> "none", transport |-> "none",
              total_stock_file |-> FALSE, store_files |-> 0, k |-> 0,
              uploaded |-> <<>>, raised |-> "none"]

CyclesIdle ==
    /\ prev = PrevIdle
    /\ route = RouteIdle
    /\ out = OutIdle
    /\ remote = RemoteIdle
    /\ inb = InbIdle
    /\ stock = StockIdle

(* the sequences that list the members of set S once each *)
Orders(S) ==
    { q \in [1..Cardinality(S) -> S] : \A i, j \in 1..Cardinality(S) :
                                          q[i] = q[j] => i = j }

----------------------------------------------------------------------------
(* Scheduler._handle_post_execution *)

(* lines 104-111: the post-job callback has been called; ok = it returned *)
post_job_result_NoMark(done, ts, today, ok) ==
    IF ok THEN [done |-> done, ts |-> ts] ELSE [done |-> done, ts |-> None]

post_job_result_KeepTimer(done, ts, today, ok) ==
    IF ok THEN [done |-> today, ts |-> ts] ELSE [done |-> done, ts |-> ts]

post_job_result(done, ts, today, ok) ==
    IF ok THEN [done |-> today, ts |-> ts] ELSE [done |-> done, ts |-> None]

(* lines 99-102: time_since_closure >= timedelta(minutes=delay_minutes) *)
delay_elapsed_Late(cfg, ts, t) == (t - ts) > cfg.delay

delay_elapsed(cfg, ts, t) == (t - ts) >= cfg.delay

(* lines 71-73: the post-job is done today *)
done_today_result_KeepTimer(done, ts) == [done |-> done, ts |-> ts]

done_today_result(done, ts) == [done |-> done, ts |-> None]

(* lines 76-77: scheduling is off or the month is not allowed *)
post_gated_Never(cfg, t) == FALSE

post_gated(cfg, t) == ~cfg.enabled \/ ~is_allowed_month(cfg, t)

(* lines 59-111.  The result carries the two fields of the scheduler after
   the call, the branch taken and whether the post-job was called. *)
handle_post_execution(cfg, done, ts, t, ok) ==
    LET today == DateOf(t)
        keep(b) == [done |-> done, ts |-> ts, branch |-> b, called |-> FALSE]
    IN  IF ~cfg.post_job_function THEN keep("idle")
        ELSE IF done = today
             THEN [keep("done_today") EXCEPT
                      !.done = done_today_result(done, ts).done,
                      !.ts = done_today_result(done, ts).ts]
        ELSE IF post_gated(cfg, t) THEN keep("gated")
        ELSE IF is_within_time_window(cfg, t)
             THEN [keep("in_window") EXCEPT
                      !.ts = IF ts # None THEN None ELSE ts,
                      !.done = IF done # today THEN None ELSE done]
        ELSE IF ts = None
             THEN [keep("just_closed") EXCEPT !.ts = t]
        ELSE IF delay_elapsed(cfg, ts, t)
             THEN LET r == post_job_result(done, ts, today, ok)
                  IN  [done |-> r.done, ts |-> r.ts,
                       branch |-> IF ok THEN "fired_ok" ELSE "fired_raised",
                       called |-> TRUE]
        ELSE keep("cooling")

----------------------------------------------------------------------------
(* Observations *)

NoEv == [op |-> "none", at |-> 0, result |-> FALSE,
         jobCalled |-> FALSE, jobRaised |-> FALSE,
         postCalled |-> FALSE, postRaised |-> FALSE, branch |-> "none",
         donePre |-> None, tsPre |-> None,
         dateHadInvocation |-> FALSE, dateHadSuccess |-> FALSE,
         closedSince |-> None, everOpenBefore |-> FALSE,
         aborted |-> FALSE]

NoInv == [t |-> None, ok |-> FALSE, ts |-> None, ticks |-> 0]

Configs ==
    [enabled : BOOLEAN, months : SUBSET Months,
     start : TimesOfDay, end : TimesOfDay,
     run_immediately : BOOLEAN, delay : 0..MaxDelay,
     post_job_function : BOOLEAN, parses : {TRUE}]

(* SCHEDULE_START_TIME or SCHEDULE_END_TIME is not of the form %H:%M *)
MalformedConfigs == { [c EXCEPT !.parses = FALSE] : c \in Configs }

(* lines 21-22: strptime raises ValueError *)
strptime_raises(cfg) == ~cfg.parses

(* lines 37-43: should_run reaches is_within_time_window, which raises *)
should_run_raises(cfg, t) ==
    cfg.enabled /\ is_allowed_month(cfg, t) /\ strptime_raises(cfg)

(* lines 65-79: _handle_post_execution reaches is_within_time_window, which
   raises *)
handle_post_execution_raises(cfg, done, t) ==
    /\ cfg.post_job_function
    /\ done # DateOf(t)
    /\ cfg.enabled /\ is_allowed_month(cfg, t)
    /\ strptime_raises(cfg)

(* line 120: the job is run at once iff this holds *)
run_immediately_gate_NoFlag(cfg, t) == should_run(cfg, t)

run_immediately_gate(cfg, t) == cfg.run_immediately /\ should_run(cfg, t)

(* Scheduler.__init__, lines 10-16, at any time of the first day *)
Init ==
    /\ config \in Configs
    /\ now \in TimesOfDay
    /\ pc = "init"
    /\ first = TRUE
    /\ post_job_done = None
    /\ window_closed_timestamp = None
    /\ ev = NoEv
    /\ inv0 = NoInv
    /\ inv1 = NoInv
    /\ ticksSince = 0
    /\ invDates = {}
    /\ okDates = {}
    /\ closedSince = None
    /\ everOpen = FALSE
    /\ in_progress = 0
    /\ FilesIdle
    /\ CyclesIdle

histVars == <<inv0, inv1, ticksSince, invDates, okDates, closedSince, everOpen>>
fieldVars == <<post_job_done, window_closed_timestamp>>

(* self.job_function() at lines 53 and 121 is a plain call on the thread of
   the loop: the clock when control is back is the clock when the callback
   returned *)
after_job_Detached(t, dur) == t

after_job(t, dur) == t + dur

(* Scheduler.start, lines 113-124: up to the entry of the loop *)
Start ==
    /\ UNCHANGED <<fileVars, cycleVars>>
    /\ pc = "init"
    /\ UNCHANGED <<config, first, fieldVars, histVars>>
    /\ IF ~config.enabled
       THEN /\ pc' = "returned"
            /\ ev' = [NoEv EXCEPT !.op = "start", !.at = now]
            /\ UNCHANGED <<now, in_progress>>
       ELSE IF config.run_immediately /\ should_run_raises(config, now)
       THEN /\ pc' = "raised"
            /\ ev' = [NoEv EXCEPT !.op = "start", !.at = now,
                                  !.branch = "value_error"]
            /\ UNCHANGED <<now, in_progress>>
       ELSE IF run_immediately_gate(config, now)
       THEN \E raised \in BOOLEAN, dur \in 0..MaxDur :
              /\ now + dur <= MaxTime
              /\ now' = after_job(now, dur)
              /\ in_progress' = (now + dur) - now'
              /\ pc' = IF raised THEN "raised" ELSE "pending"
              /\ ev' = [NoEv EXCEPT !.op = "start", !.at = now, !.result = TRUE,
                                    !.jobCalled = TRUE, !.jobRaised = raised]
       ELSE /\ pc' = "pending"
            /\ ev' = [NoEv EXCEPT !.op = "start", !.at = now]
            /\ UNCHANGED <<now, in_progress>>

(* scheduled_job, lines 48-57: the job callback is called iff this holds *)
scheduled_job(cfg, t) == should_run(cfg, t)

(* schedule.run_pending(), line 138, running scheduled_job when the job
   registered at line 124 is due: on every iteration but the first *)
RunPending ==
    /\ UNCHANGED <<fileVars, cycleVars>>
    /\ pc = "pending"
    /\ pc' = IF ~first /\ should_run_raises(config, now) THEN "raised" ELSE "post"
    /\ UNCHANGED <<config, first, fieldVars, inv0, inv1, ticksSince, invDates,
                   okDates, closedSince>>
    /\ IF first
       THEN /\ ev' = [NoEv EXCEPT !.op = "run_pending", !.at = now]
            /\ UNCHANGED <<now, in_progress>>
            /\ UNCHANGED everOpen
       ELSE IF should_run_raises(config, now)
       THEN /\ ev' = [NoEv EXCEPT !.op = "scheduled_job", !.at = now,
                                  !.branch = "value_error"]
            /\ UNCHANGED <<now, in_progress>>
            /\ UNCHANGED everOpen
       ELSE /\ everOpen' = (everOpen \/ is_within_time_window(config, now))
            /\ IF scheduled_job(config, now)
               THEN \E raised \in BOOLEAN, dur \in 0..MaxDur :
                      /\ now + dur <= MaxTime
                      /\ now' = after_job(now, dur)
                      /\ in_progress' = (now + dur) - now'
                      /\ ev' = [NoEv EXCEPT !.op = "scheduled_job", !.at = now,
                                            !.result = TRUE, !.jobCalled = TRUE,
                                            !.jobRaised = raised]
               ELSE /\ UNCHANGED <<now, in_progress>>
                    /\ ev' = [NoEv EXCEPT !.op = "scheduled_job", !.at = now]

(* self._handle_post_execution(), line 139 *)
HandlePostExecution ==
    /\ UNCHANGED <<fileVars, cycleVars>>
    /\ pc = "post"
    /\ UNCHANGED <<config, in_progress, now, first>>
    /\ IF handle_post_execution_raises(config, post_job_done, now)
       THEN /\ pc' = "raised"
            /\ ev' = [NoEv EXCEPT !.op = "handle_post_execution", !.at = now,
                                  !.branch = "value_error",
                                  !.donePre = post_job_done,
                                  !.tsPre = window_closed_timestamp]
            /\ UNCHANGED <<fieldVars, histVars>>
       ELSE /\ pc' = "sleep"
            /\ \E ok \in BOOLEAN :
               LET r == handle_post_execution(config, post_job_done,
                                              window_closed_timestamp, now, ok)
                   open == is_within_time_window(config, now)
                   cs == IF open THEN None
                         ELSE IF closedSince = None THEN now ELSE closedSince
               IN  /\ post_job_done' = r.done
                   /\ window_closed_timestamp' = r.ts
                   /\ closedSince' = cs
                   /\ everOpen' = (everOpen \/ open)
                   /\ ev' = [NoEv EXCEPT
                               !.op = "handle_post_execution", !.at = now,
                               !.result = open, !.branch = r.branch,
                               !.postCalled = r.called,
                               !.postRaised = (r.called /\ ~ok),
                               !.donePre = post_job_done,
                               !.tsPre = window_closed_timestamp,
                               !.dateHadInvocation = (DateOf(now) \in invDates),
                               !.dateHadSuccess = (DateOf(now) \in okDates),
                               !.closedSince = cs,
                               !.everOpenBefore = everOpen]
                   /\ IF r.called
                      THEN /\ inv0' = inv1
                           /\ inv1' = [t |-> now, ok |-> ok,
                                       ts |-> window_closed_timestamp,
                                       ticks |-> ticksSince + 1]
                           /\ ticksSince' = 0
                           /\ invDates' = invDates \cup {DateOf(now)}
                           /\ okDates' = IF ok THEN okDates \cup {DateOf(now)} ELSE okDates
                      ELSE /\ ticksSince' = IF ticksSince < 2 THEN ticksSince + 1 ELSE 2
                           /\ UNCHANGED <<inv0, inv1, invDates, okDates>>

(* time.sleep(interval * 60), line 140, and whatever the callbacks took *)
Sleep ==
    /\ UNCHANGED <<fileVars, cycleVars>>
    /\ pc = "sleep"
    /\ \E gap \in 1..MaxGap :
         /\ now + gap <= MaxTime
         /\ now' = now + gap
         /\ in_progress' = IF in_progress > gap THEN in_progress - gap ELSE 0
    /\ pc' = "pending"
    /\ first' = FALSE
    /\ ev' = [NoEv EXCEPT !.op = "sleep", !.at = now]
    /\ UNCHANGED <<config, fieldVars, histVars>>

Next == Start \/ RunPending \/ HandlePostExecution \/ Sleep

Spec == Init /\ [][Next]_vars


----------------------------------------------------------------------------
(* The methods of Scheduler called one by one, on any configuration and at
   any clock value.  The three methods called read neither the delay, nor
   run_immediately, nor the post-job: those are left at one value. *)

InitCalls ==
    /\ config \in { c \in Configs : c.delay = 0 /\ ~c.run_immediately
                                       /\ ~c.post_job_function }
    /\ now \in TimesOfDay
    /\ pc = "call"
    /\ first = FALSE
    /\ post_job_done = None
    /\ window_closed_timestamp = None
    /\ ev = NoEv
    /\ inv0 = NoInv
    /\ inv1 = NoInv
    /\ ticksSince = 0
    /\ invDates = {}
    /\ okDates = {}
    /\ closedSince = None
    /\ everOpen = FALSE
    /\ in_progress = 0
    /\ FilesIdle
    /\ CyclesIdle

CallIsWithinTimeWindow ==
    /\ UNCHANGED <<fileVars, cycleVars>>
    /\ pc = "call"
    /\ ev' = [NoEv EXCEPT !.op = "is_within_time_window", !.at = now,
                          !.result = is_within_time_window(config, now)]
    /\ UNCHANGED <<config, in_progress, now, pc, first, fieldVars, histVars>>

CallShouldRun ==
    /\ UNCHANGED <<fileVars, cycleVars>>
    /\ pc = "call"
    /\ ev' = [NoEv EXCEPT !.op = "should_run", !.at = now,
                          !.result = should_run(config, now)]
    /\ UNCHANGED <<config, in_progress, now, pc, first, fieldVars, histVars>>

CallScheduledJob ==
    /\ UNCHANGED <<fileVars, cycleVars>>
    /\ pc = "call"
    /\ \E raised \in BOOLEAN :
         ev' = [NoEv EXCEPT !.op = "scheduled_job", !.at = now,
                            !.result = should_run(config, now),
                            !.jobCalled = scheduled_job(config, now),
                            !.jobRaised = (scheduled_job(config, now) /\ raised)]
    /\ UNCHANGED <<config, in_progress, now, pc, first, fieldVars, histVars>>

ClockAdvance ==
    /\ UNCHANGED <<fileVars, cycleVars>>
    /\ pc = "call"
    /\ now < MaxTime
    /\ now' = now + 1
    /\ UNCHANGED <<config, in_progress, pc, first, fieldVars, histVars, ev>>

NextCalls ==
    CallIsWithinTimeWindow \/ CallShouldRun \/ CallScheduledJob \/ ClockAdvance

SpecCalls == InitCalls /\ [][NextCalls]_vars

----------------------------------------------------------------------------
(* Reference predicates of the claims *)

(* the slots met walking forward from start to end, around midnight if needed *)
WindowSlots(cfg) ==
    { (cfg.start + k) % DayLen : k \in 0..((cfg.end - cfg.start) % DayLen) }

WindowOpenAt(cfg, t) == TimeOfDay(t) \in WindowSlots(cfg)

LoopPcs == {"pending", "post", "sleep"}

----------------------------------------------------------------------------
(* C1: for any sequence of ticks and any outcomes of the post-job, the
   post-job callback is invoked at most once per calendar date. *)
C1_InvokedOncePerDate ==
    ev.postCalled => ~ev.dateHadInvocation

(* C1 as amended: once the post-job callback has returned successfully on a
   tick whose date is D, no tick whose date is D invokes it again (an
   invocation that raised may be followed by another one on the same date). *)
C1_NoInvocationAfterSuccessOnDate ==
    ev.postCalled => ~ev.dateHadSuccess

C1_Witness ==
    /\ ev.op = "handle_post_execution"
    /\ ev.dateHadSuccess
    /\ ev.branch = "done_today"
    /\ ~ev.postCalled

(* C2: every invocation of the post-job happens on a tick at which the
   window has been observed closed, on every tick without interruption, for
   at least POST_EXECUTION_DELAY_MINUTES; ticks of a non-allowed month count. *)
C2_ClosedForDelay ==
    ev.postCalled =>
        /\ ev.closedSince # None
        /\ ev.at - ev.closedSince >= config.delay

(* C3: is_within_time_window is true iff start <= now <= end when
   start <= end, and iff now >= start or now <= end when start > end; that
   is, iff now is one of the slots from start forward to end. *)
C3_WindowMembership ==
    ev.op = "is_within_time_window" =>
        /\ config.start <= config.end =>
              (ev.result <=> (config.start <= TimeOfDay(ev.at)
                                 /\ TimeOfDay(ev.at) <= config.end))
        /\ config.start > config.end =>
              (ev.result <=> (TimeOfDay(ev.at) >= config.start
                                 \/ TimeOfDay(ev.at) <= config.end))
        /\ ev.result <=> WindowOpenAt(config, ev.at)

C3_Witness ==
    /\ ev.op = "is_within_time_window"
    /\ config.start > config.end
    /\ TimeOfDay(ev.at) < config.start
    /\ ev.result

(* C4: should_run is true iff enabled, the month is allowed and the time is
   in the window (false whenever enabled is false); scheduled_job calls the
   job callback iff should_run is true. *)
C4_ShouldRunGate ==
    LET ref == /\ config.enabled
               /\ MonthOf(ev.at) \in config.months
               /\ WindowOpenAt(config, ev.at)
    IN  /\ ev.op = "should_run" => (ev.result <=> ref)
        /\ ev.op = "scheduled_job" => (ev.jobCalled <=> ref)
        /\ (ev.op \in {"should_run", "scheduled_job"} /\ ~config.enabled)
              => (~ev.result /\ ~ev.jobCalled)

C4_Witness ==
    /\ ev.op = "scheduled_job"
    /\ ~config.enabled
    /\ MonthOf(ev.at) \in config.months
    /\ WindowOpenAt(config, ev.at)
    /\ ~ev.jobCalled

(* C5: an exception raised by the job callback never stops the scheduler:
   after any invocation that raised, the tick loop is entered or continues. *)
C5_JobExceptionCaught ==
    ev.jobRaised => pc \in LoopPcs

(* C6: when the post-job raises, post_job_done is unchanged (not today),
   window_closed_timestamp is cleared and the loop continues; the next
   invocation is not on the immediately following tick, and comes at least
   the delay after a later tick that observed the window closed. *)
C6_FailureRestartsCooldown ==
    /\ ev.postRaised =>
          /\ post_job_done = ev.donePre
          /\ post_job_done # DateOf(ev.at)
          /\ window_closed_timestamp = None
          /\ pc \in LoopPcs
    /\ (inv0.t # None /\ ~inv0.ok /\ inv1.t # None) =>
          /\ inv1.ticks >= 2
          /\ inv1.ts > inv0.t
          /\ ~WindowOpenAt(config, inv1.ts)
          /\ inv1.t - inv1.ts >= config.delay

C6_Witness ==
    /\ inv0.t # None /\ ~inv0.ok /\ inv1.t # None
    /\ ev.postCalled
    /\ config.delay > 0

(* C7: in every state between two steps of the tick loop,
   window_closed_timestamp is non-null only if post_job_done is not today. *)
C7_TimerOnlyWhileNotDone ==
    (pc \in LoopPcs /\ window_closed_timestamp # None)
        => post_job_done # DateOf(now)

(* C8: after a successful run the post-job is not invoked again until the
   window has been open and has closed again: the window is open at some
   time between two consecutive invocations of which the first succeeded. *)
C8_ReopenBeforeNextRun ==
    (inv0.t # None /\ inv0.ok /\ inv1.t # None) =>
        \E u \in (inv0.t + 1)..(inv1.t - 1) : WindowOpenAt(config, u)

(* C9: window_closed_timestamp goes from null to non-null only on a tick
   that observes the window closed after an earlier tick of the same process
   observed it open. *)
C9_TimerStartsAfterOpen ==
    (ev.op = "handle_post_execution" /\ ev.tsPre = None
        /\ window_closed_timestamp # None)
        => (~ev.result /\ ev.everOpenBefore)


----------------------------------------------------------------------------
(* file_handler._process_folder and _archive_processed_files *)

(* a configuration of the scheduler, for the specifications that do not run it *)
SchedulerIdle ==
    /\ config = [enabled |-> FALSE, months |-> {}, start |-> 0, end |-> 0,
                 run_immediately |-> FALSE, delay |-> 0,
                 post_job_function |-> FALSE, parses |-> TRUE]
    /\ now = 0
    /\ pc = "idle"
    /\ first = FALSE
    /\ post_job_done = None
    /\ window_closed_timestamp = None
    /\ ev = NoEv
    /\ inv0 = NoInv
    /\ inv1 = NoInv
    /\ ticksSince = 0
    /\ invDates = {}
    /\ okDates = {}
    /\ closedSince = None
    /\ everOpen = FALSE
    /\ in_progress = 0

Passes ==
    { [source |-> "sync", rules |-> main_folder_rules],
      [source |-> "devolucao", rules |-> devolucao_folder_rules] }

(* One call of _process_folder, on either folder with its rules (lines
   165-166).  The source directory holds any files, the archive any files
   of earlier cycles; the returns subfolder may not exist. *)
InitFolder ==
    /\ SchedulerIdle
    /\ CyclesIdle
    /\ pass \in Passes
    /\ \E src \in [Names -> {NoFile, NewFile}], arc \in [Names -> {NoFile, OldFile}] :
         fs = [d \in Dirs |-> IF d = pass.source THEN src
                              ELSE IF d = "archive" THEN arc ELSE EmptyDir]
    /\ existing \in { Dirs, Dirs \ {"devolucao"} }
    /\ (\E n \in Names : fs["devolucao"][n] # NoFile) => "devolucao" \in existing
    /\ fpc = "enter"
    /\ all_files = <<>>
    /\ idx = 0
    /\ files_to_archive = <<>>
    /\ snap = EmptyDir
    /\ outcome = [n \in Names |-> "none"]

(* lines 87-91: files_to_archive after the upload of filename *)
archive_list_Always(list, filename, success) == Append(list, filename)

archive_list(list, filename, success) ==
    IF success THEN Append(list, filename) ELSE list

(* lines 74-91: the for loop takes the next file whatever upload_file
   returned for this one *)
upload_loop_continues_OnSuccess(success) == success

upload_loop_continues(success) == TRUE

(* lines 59-72: the directory check and the enumeration *)
ProcessFolderEnter ==
    /\ fpc = "enter"
    /\ UNCHANGED <<schedVars, fs, existing, pass, files_to_archive, outcome>>
    /\ UNCHANGED cycleVars
    /\ IF pass.source \notin existing
       THEN /\ fpc' = "done"
            /\ UNCHANGED <<all_files, idx, snap>>
       ELSE \E oserror \in BOOLEAN, order \in Orders(Present(fs[pass.source])) :
              IF oserror \/ order = <<>>
              THEN /\ fpc' = "done"
                   /\ UNCHANGED <<all_files, idx, snap>>
              ELSE /\ fpc' = "upload"
                   /\ all_files' = order
                   /\ idx' = 1
                   /\ snap' = fs[pass.source]

(* lines 75-91: one iteration of the upload loop; after the last one, the
   call of _archive_processed_files (line 94, lines 32-34) *)
ProcessFolderFile ==
    /\ fpc = "upload"
    /\ UNCHANGED <<schedVars, fs, existing, pass, all_files, snap>>
    /\ UNCHANGED cycleVars
    /\ LET filename == all_files[idx]
           remote_subfolder == get_remote_destination(filename, pass.rules)
       IN  \E success \in BOOLEAN :
             LET list == IF remote_subfolder = NoDest THEN files_to_archive
                         ELSE archive_list(files_to_archive, filename, success)
             IN  /\ files_to_archive' = list
                 /\ outcome' = [outcome EXCEPT ![filename] =
                                   IF remote_subfolder = NoDest THEN "skipped"
                                   ELSE IF success THEN "ok" ELSE "failed"]
                 /\ IF idx < Len(all_files) /\ upload_loop_continues(success)
                    THEN /\ idx' = idx + 1
                         /\ fpc' = "upload"
                    ELSE /\ idx' = 1
                         /\ fpc' = IF list = <<>> THEN "done" ELSE "archive"

(* lines 38-49: one iteration of the archive loop *)
ArchiveFile ==
    /\ fpc = "archive"
    /\ UNCHANGED <<schedVars, existing, pass, all_files, files_to_archive,
                   snap, outcome>>
    /\ UNCHANGED cycleVars
    /\ LET filename == files_to_archive[idx]
           source_dir == fs[pass.source]
       IN  \E oserror \in BOOLEAN :
             IF source_dir[filename] # NoFile /\ ~oserror
             THEN fs' = [fs EXCEPT
                           !["archive"][filename] = source_dir[filename],
                           ![pass.source][filename] = NoFile]
             ELSE fs' = fs
    /\ IF idx < Len(files_to_archive)
       THEN /\ idx' = idx + 1
            /\ fpc' = "archive"
       ELSE /\ idx' = idx
            /\ fpc' = "done"

NextFolder == ProcessFolderEnter \/ ProcessFolderFile \/ ArchiveFile

SpecFolder == InitFolder /\ [][NextFolder]_vars

Enumerated == { all_files[i] : i \in 1..Len(all_files) }

(* no rule of the pass has a match anywhere in the name *)
MatchesNoRule(filename) ==
    \A r \in 1..Len(pass.rules) : \A i \in 1..Len(filename) :
        ~MatchesAt(pass.rules[r].prefix, filename, i)

(* C10: a file goes from the source directory to the archive directory only
   if its upload returned success in the same pass; after the pass a file
   that matches no rule and a file whose upload failed are still in the
   source directory and are not in the archive directory. *)
C10_ArchiveOnlyUploaded ==
    /\ \A n \in Names :
          (snap[n] # NoFile /\ fs["archive"][n] = snap[n]) =>
              (outcome[n] = "ok" /\ fs[pass.source][n] = NoFile)
    /\ fpc = "done" =>
          \A n \in Enumerated :
              (MatchesNoRule(n) \/ outcome[n] = "failed") =>
                  /\ outcome[n] # "ok"
                  /\ fs[pass.source][n] = snap[n]
                  /\ fs["archive"][n] # snap[n]

C10_Witness ==
    /\ fpc = "done"
    /\ \E a, b, c \in Enumerated :
          /\ MatchesNoRule(a)
          /\ outcome[b] = "failed"
          /\ outcome[c] = "ok" /\ fs["archive"][c] = NewFile
          /\ fs["archive"][b] = OldFile

----------------------------------------------------------------------------
(* file_handler.sync_sftp_to_local_folder and                              *)
(* _download_files_from_remote_folder                                      *)

MaxCodes == 2
MaxRemote == 2

(* the values of SALFCY_0 and the sequences of them a query can return *)
StoreCodes == 1..MaxCodes
CodeLists == UNION { [1..n -> StoreCodes] : n \in 0..MaxCodes }

(* the names a remote folder can hold *)
RNames == { AllNames[i] : i \in 1..MaxRemote }
RemoteContents == [RNames -> {NoFile, NewFile}]

(* settings.SFTP_SYNC_BASE_PATH *)
Base == "base"

(* line 215 *)
subfolders_to_check_InOnly(base, code) == << <<base, code, "in">> >>

subfolders_to_check(base, code) ==
    << <<base, code, "in">>, <<base, code, "recolhas", "in">> >>

(* the transport's list operation: the names of the files of the folder,
   in any order *)
list_files(dir) == Orders({ n \in RNames : dir[n] # NoFile })

(* the transport's delete operation, with its result *)
delete_file(dir, filename, success) ==
    IF success THEN [dir EXCEPT ![filename] = NoFile] ELSE dir

(* lines 120-125: the remote file is removed iff this holds *)
delete_issued_Always(download_success) == TRUE

delete_issued(download_success) == download_success

(* line 219-221: the with statement closes the session, the function
   returns False *)
InboundAbort(r) ==
    [r EXCEPT !.pc = "returned", !.result = "false", !.failed = TRUE,
              !.session = IF r.session = "open" THEN "closed" ELSE r.session]

(* lines 213 and 217: the next folder of the two loops; after the last one
   the with statement closes the session and line 225 returns True *)
InboundAdvance(r) ==
    IF r.fi < Len(subfolders_to_check(Base, r.codes[r.ci]))
    THEN [r EXCEPT !.pc = "list", !.fi = r.fi + 1]
    ELSE IF r.ci < Len(r.codes)
    THEN [r EXCEPT !.pc = "list", !.ci = r.ci + 1, !.fi = 1]
    ELSE [r EXCEPT !.pc = "returned", !.result = "true", !.session = "closed"]

(* One call of sync_sftp_to_local_folder. *)
InitInbound ==
    /\ SchedulerIdle
    /\ FilesIdle
    /\ prev = PrevIdle
    /\ route = RouteIdle
    /\ out = OutIdle
    /\ stock = StockIdle
    /\ remote = [n \in RNames |-> NoFile]
    /\ inb = [InbIdle EXCEPT !.pc = "fetch",
                             !.download = [n \in RNames |-> "none"]]

(* lines 187-200: the query of the store codes, on a connection of its own *)
FetchFolderCodes ==
    /\ inb.pc = "fetch"
    /\ UNCHANGED <<schedVars, fileVars, prev, route, out, remote, stock>>
    /\ \E connected \in BOOLEAN, results \in CodeLists :
         IF ~connected
         THEN inb' = [inb EXCEPT !.pc = "returned", !.result = "false"]
         ELSE IF results = <<>>
         THEN inb' = [inb EXCEPT !.pc = "returned", !.result = "false",
                                 !.db = "closed"]
         ELSE inb' = [inb EXCEPT !.pc = "open", !.db = "closed",
                                 !.codes = results]

(* line 212: SftpManager.__enter__ *)
InboundOpenSession ==
    /\ inb.pc = "open"
    /\ UNCHANGED <<schedVars, fileVars, prev, route, out, remote, stock>>
    /\ \E connected \in BOOLEAN :
         IF connected
         THEN inb' = [inb EXCEPT !.pc = "list", !.session = "open",
                                 !.ci = 1, !.fi = 1]
         ELSE inb' = InboundAbort(inb)

(* lines 101-109: the listing of the next folder; the folder holds any
   files at that time *)
ListFolder ==
    /\ inb.pc = "list"
    /\ UNCHANGED <<schedVars, fileVars, prev, route, out, stock>>
    /\ LET remote_folder == subfolders_to_check(Base, inb.codes[inb.ci])[inb.fi]
       IN  \E raised \in BOOLEAN, content \in RemoteContents :
           \E files \in list_files(content) :
             IF raised
             THEN /\ inb' = InboundAbort(inb)
                  /\ remote' = remote
             ELSE /\ remote' = content
                  /\ LET r == [inb EXCEPT !.polled = Append(inb.polled, remote_folder),
                                          !.download = [n \in RNames |-> "none"],
                                          !.deleted = {},
                                          !.files_in_folder = files,
                                          !.k = 1,
                                          !.empty_seen = inb.empty_seen \/ files = <<>>]
                     IN  inb' = IF files = <<>> THEN InboundAdvance(r)
                                ELSE [r EXCEPT !.pc = "download"]

(* lines 111-125: one iteration of the download loop *)
DownloadFile ==
    /\ inb.pc = "download"
    /\ UNCHANGED <<schedVars, fileVars, prev, route, out, stock>>
    /\ LET filename == inb.files_in_folder[inb.k]
       IN  \E download_success \in BOOLEAN, delete \in {"ok", "failed", "raised"} :
             LET r == [inb EXCEPT
                         !.download[filename] =
                             IF download_success THEN "ok" ELSE "failed",
                         !.local = IF download_success
                                   THEN inb.local \cup {filename} ELSE inb.local]
             IN  IF delete_issued(download_success)
                 THEN LET d == [r EXCEPT !.deleted = r.deleted \cup {filename}]
                      IN  /\ remote' = delete_file(remote, filename, delete = "ok")
                          /\ inb' = IF delete = "raised" THEN InboundAbort(d)
                                    ELSE IF d.k < Len(d.files_in_folder)
                                    THEN [d EXCEPT !.k = d.k + 1]
                                    ELSE InboundAdvance(d)
                 ELSE /\ delete = "ok"
                      /\ remote' = remote
                      /\ inb' = IF r.k < Len(r.files_in_folder)
                                THEN [r EXCEPT !.k = r.k + 1]
                                ELSE InboundAdvance(r)

NextInbound == FetchFolderCodes \/ InboundOpenSession \/ ListFolder \/ DownloadFile

SpecInbound == InitInbound /\ [][NextInbound]_vars

(* C11: the delete operation is issued for a remote file only after the
   download of that same file returned success in the same pass; when a
   download fails, no delete is issued for that file and it is still
   present remotely after the pass. *)
C11_DeleteOnlyAfterDownload ==
    \A n \in RNames :
        /\ n \in inb.deleted => inb.download[n] = "ok"
        /\ (inb.pc \in {"list", "returned"} /\ inb.download[n] = "failed") =>
               (n \notin inb.deleted /\ remote[n] # NoFile)

C11_Witness ==
    /\ inb.pc \in {"list", "returned"}
    /\ \E a, b \in RNames :
          /\ inb.download[a] = "failed" /\ remote[a] # NoFile
          /\ inb.download[b] = "ok" /\ b \in inb.deleted /\ remote[b] = NoFile

(* the folders of a cycle over codes, in polling order *)
ExpectedFolders(codes) ==
    [i \in 1..(2 * Len(codes)) |->
        IF i % 2 = 1 THEN <<Base, codes[(i + 1) \div 2], "in">>
        ELSE <<Base, codes[i \div 2], "recolhas", "in">>]

IsPrefix(p, q) ==
    /\ Len(p) <= Len(q)
    /\ \A i \in 1..Len(p) : p[i] = q[i]

(* C15: for every code returned by the database, in order, the folders
   <base>/<code>/in and <base>/<code>/recolhas/in are polled; a folder with
   an empty listing is not an error and does not stop the remaining folders
   or codes; a transport-session-level failure stops the processing of all
   remaining codes of the cycle and makes the function return False. *)
C15_PollsEveryFolder ==
    /\ IsPrefix(inb.polled, ExpectedFolders(inb.codes))
    /\ inb.pc = "list" => Len(inb.polled) = 2 * (inb.ci - 1) + inb.fi - 1
    /\ inb.pc = "download" => Len(inb.polled) = 2 * (inb.ci - 1) + inb.fi
    /\ inb.result = "true" =>
          (inb.polled = ExpectedFolders(inb.codes) /\ ~inb.failed)
    /\ (inb.result = "false" /\ inb.codes # <<>>) => inb.failed
    /\ inb.failed => (inb.pc = "returned" /\ inb.result = "false")
    /\ inb.pc = "returned" => inb.session # "open"

C15_Witness ==
    /\ inb.failed
    /\ inb.empty_seen
    /\ inb.ci < Len(inb.codes)
    /\ Len(inb.polled) >= 2
    /\ \E n \in RNames : inb.download[n] = "ok"

----------------------------------------------------------------------------
(* file_handler._get_remote_destination as called by the upload loop *)

MaxPieces == 4

(* file names: up to MaxPieces of these pieces, one after the other *)
Pieces ==
    { <<"E", "D", "I", "E", "E">>, <<"R", "E", "C", "E">>,
      <<"p", "r", "o", "d", "e">>, <<"0", "7">>, <<"1", "2">>, <<"_", "x">> }

RECURSIVE PieceNames(_)
PieceNames(n) ==
    IF n = 0 THEN { <<>> }
    ELSE LET S == PieceNames(n - 1)
         IN  S \cup { s \o q : s \in S, q \in Pieces }

RouteNames == (PieceNames(MaxPieces) \ { <<>> }) \cup {F_EDI, F_NOM}

(* a rule set of two patterns, and one with a template without {code} *)
example_rules ==
    << [prefix |-> <<"E", "D", "I", "E", "E">>, template |-> <<"E", "{code}">>],
       [prefix |-> <<"R", "E", "C", "E">>, template |-> <<"E", "{code}">>] >>

fixed_rules ==
    << [prefix |-> <<"R", "E", "C", "E">>, template |-> <<"D", "E", "V">>],
       [prefix |-> <<"E", "D", "I", "E", "E">>, template |-> <<"E", "{code}">>] >>

RuleSets == {main_folder_rules, devolucao_folder_rules, example_rules, fixed_rules}

(* line 82 *)
remote_path(base, remote_subfolder, filename) ==
    <<base, remote_subfolder, "out", filename>>

InitRoute ==
    /\ SchedulerIdle
    /\ FilesIdle
    /\ prev = PrevIdle
    /\ out = OutIdle
    /\ remote = RemoteIdle
    /\ inb = InbIdle
    /\ stock = StockIdle
    /\ \E filename \in RouteNames, rules \in RuleSets :
         route = [RouteIdle EXCEPT !.pc = "call", !.filename = filename,
                                   !.rules = rules]

(* lines 76-82: the routing of one file of the loop *)
RouteFile ==
    /\ route.pc = "call"
    /\ UNCHANGED <<schedVars, fileVars, prev, out, remote, inb, stock>>
    /\ LET remote_subfolder == get_remote_destination(route.filename, route.rules)
       IN  route' = [route EXCEPT
                       !.pc = "done",
                       !.remote_subfolder = remote_subfolder,
                       !.remote_path =
                           IF remote_subfolder = NoDest THEN <<>>
                           ELSE remote_path(Base, remote_subfolder, route.filename)]

NextRoute == RouteFile

SpecRoute == InitRoute /\ [][NextRoute]_vars

(* the rules of the call that have a match somewhere in the name *)
MatchingRules ==
    { r \in 1..Len(route.rules) :
        \E i \in 1..Len(route.filename) :
            MatchesAt(route.rules[r].prefix, route.filename, i) }

(* C12: _get_remote_destination returns the destination of the first rule,
   in declaration order, whose pattern matches the filename (the captured
   two-digit code substituted into a template containing {code}, the fixed
   template otherwise), and None iff no rule matches; the upload path built
   from it is <base>/<destination>/out/<filename>; with the rules
   EDIEE(\d{2}) -> E{code}, RECE(\d{2}) -> E{code}, EDIEE07_x routes to E07
   and NOMATCH to none. *)
C12_FirstMatchWins ==
    /\ route.pc = "done" =>
          /\ route.remote_subfolder = NoDest <=> MatchingRules = {}
          /\ MatchingRules = {} => route.remote_path = <<>>
          /\ MatchingRules # {} =>
                LET r == CHOOSE x \in MatchingRules : \A y \in MatchingRules : x <= y
                    rule == route.rules[r]
                    at == { i \in 1..Len(route.filename) :
                              MatchesAt(rule.prefix, route.filename, i) }
                    i == CHOOSE x \in at : \A y \in at : x <= y
                    code == SubSeq(route.filename, i + Len(rule.prefix),
                                   i + Len(rule.prefix) + 1)
                IN  /\ rule.template = <<"E", "{code}">> =>
                           route.remote_subfolder = <<"E">> \o code
                    /\ rule.template # <<"E", "{code}">> =>
                           route.remote_subfolder = rule.template
                    /\ route.remote_path =
                           <<Base, route.remote_subfolder, "out", route.filename>>
    /\ (route.pc = "done" /\ route.rules = example_rules) =>
          /\ route.filename = F_EDI => route.remote_subfolder = <<"E", "0", "7">>
          /\ route.filename = F_NOM => route.remote_subfolder = NoDest

C12_Witness ==
    /\ route.pc = "done"
    /\ route.rules = example_rules
    /\ MatchingRules = {1, 2}
    /\ route.remote_subfolder = <<"E", "0", "7">>
    /\ search(<<"R", "E", "C", "E">>, route.filename) = 1
    /\ route.filename[5] = "1"

----------------------------------------------------------------------------
(* file_handler.sync_local_folder_to_sftp *)

(* line 148 *)
nothing_to_do_Never(files) == FALSE

nothing_to_do(files) == files = {}

(* lines 163-173: the value returned once the session was asked for *)
sync_result_Always(raised) == TRUE

sync_result(raised) == ~raised

(* lines 165-166 *)
SyncPasses ==
    << [source |-> "sync", rules |-> main_folder_rules],
       [source |-> "devolucao", rules |-> devolucao_folder_rules] >>

(* One call of sync_local_folder_to_sftp: the sync directory and its
   returns subfolder hold any files. *)
InitOutbound ==
    /\ SchedulerIdle
    /\ prev = PrevIdle
    /\ route = RouteIdle
    /\ remote = RemoteIdle
    /\ inb = InbIdle
    /\ stock = StockIdle
    /\ out = [OutIdle EXCEPT !.pc = "enter"]
    /\ \E src, dev \in [Names -> {NoFile, NewFile}] :
         fs = [d \in Dirs |-> IF d = "sync" THEN src
                              ELSE IF d = "devolucao" THEN dev ELSE EmptyDir]
    /\ existing \in { Dirs, Dirs \ {"devolucao"} }
    /\ (\E n \in Names : fs["devolucao"][n] # NoFile) => "devolucao" \in existing
    /\ pass = NoPass
    /\ fpc = "idle"
    /\ all_files = <<>>
    /\ idx = 0
    /\ files_to_archive = <<>>
    /\ snap = EmptyDir
    /\ outcome = [n \in Names |-> "none"]

(* lines 135-150: the directories are made, the sync directory is listed *)
SyncEnter ==
    /\ out.pc = "enter"
    /\ UNCHANGED <<schedVars, fs, pass, fpc, all_files, idx, files_to_archive,
                   snap, outcome, prev, route, remote, inb, stock>>
    /\ existing' = existing \cup {"sync", "archive"}
    /\ \E oserror \in BOOLEAN :
         LET r == [out EXCEPT !.at_entry = Present(fs["sync"]),
                              !.listed = ~oserror]
         IN  IF oserror \/ nothing_to_do(Present(fs["sync"]))
             THEN out' = [r EXCEPT !.pc = "returned", !.result = "false"]
             ELSE out' = [r EXCEPT !.pc = "open"]

(* line 164: SftpManager.__enter__; when it raises, lines 167-169 *)
SyncOpenSession ==
    /\ out.pc = "open"
    /\ UNCHANGED <<schedVars, fs, existing, all_files, idx, files_to_archive,
                   snap, outcome, prev, route, remote, inb, stock>>
    /\ \E raised \in BOOLEAN :
         IF raised
         THEN /\ out' = [out EXCEPT !.pc = "returned", !.failed = TRUE,
                                    !.attempts = out.attempts + 1,
                                    !.result = IF sync_result(TRUE)
                                               THEN "true" ELSE "false"]
              /\ UNCHANGED <<pass, fpc>>
         ELSE /\ out' = [out EXCEPT !.pc = "pass", !.session = "open",
                                    !.attempts = out.attempts + 1]
              /\ pass' = SyncPasses[1]
              /\ fpc' = "enter"

(* what the finished pass adds to the record of the cycle *)
PassDone(r) ==
    [r EXCEPT !.passes = Append(r.passes, pass.source),
              !.uploads = r.uploads +
                  Cardinality({ n \in Names : outcome[n] \in {"ok", "failed"} }),
              !.upload_failures = r.upload_failures +
                  Cardinality({ n \in Names : outcome[n] = "failed" })]

(* line 166: the call of _process_folder on the returns subfolder *)
SyncNextPass ==
    /\ out.pc = "pass"
    /\ fpc = "done"
    /\ Len(out.passes) + 1 < Len(SyncPasses)
    /\ UNCHANGED <<schedVars, fs, existing, prev, route, remote, inb, stock>>
    /\ out' = PassDone(out)
    /\ pass' = SyncPasses[Len(out.passes) + 2]
    /\ fpc' = "enter"
    /\ all_files' = <<>>
    /\ idx' = 0
    /\ files_to_archive' = <<>>
    /\ snap' = EmptyDir
    /\ outcome' = [n \in Names |-> "none"]

(* line 164, SftpManager.__exit__, and lines 171-173 *)
SyncReturn ==
    /\ out.pc = "pass"
    /\ fpc = "done"
    /\ Len(out.passes) + 1 = Len(SyncPasses)
    /\ UNCHANGED <<schedVars, fileVars, prev, route, remote, inb, stock>>
    /\ out' = [PassDone(out) EXCEPT !.pc = "returned", !.session = "closed",
                                    !.result = IF sync_result(FALSE)
                                               THEN "true" ELSE "false"]

NextOutbound ==
    \/ SyncEnter \/ SyncOpenSession \/ SyncNextPass \/ SyncReturn
    \/ ProcessFolderEnter \/ ProcessFolderFile \/ ArchiveFile

SpecOutbound == InitOutbound /\ [][NextOutbound]_vars

(* C13: when the local sync directory contains no regular files,
   sync_local_folder_to_sftp returns False without opening a transport
   session and without invoking any transport operation. *)
C13_EmptyReturnsFalse ==
    (out.pc \notin {"idle", "enter"} /\ out.at_entry = {}) =>
        /\ out.pc = "returned"
        /\ out.result = "false"
        /\ out.attempts = 0
        /\ out.session = "none"
        /\ out.uploads = 0
        /\ fpc = "idle"
        /\ \A n \in Names : outcome[n] = "none"

C13_Witness ==
    /\ out.pc = "returned"
    /\ out.listed
    /\ out.at_entry = {}
    /\ Present(fs["devolucao"]) # {}

(* C14: when the sync directory holds regular files and is listed,
   sync_local_folder_to_sftp opens exactly one transport session, runs the
   main-folder pass and then the returns-subfolder pass on it in that order,
   and returns True iff no session-level failure occurred; any number of
   per-file upload failures still yields True. *)
C14_OneSessionTwoPasses ==
    /\ out.attempts <= 1
    /\ IsPrefix(out.passes, <<"sync", "devolucao">>)
    /\ (out.pc = "pass" /\ fpc # "done") => pass = SyncPasses[Len(out.passes) + 1]
    /\ (fpc \in {"enter", "upload", "archive"}) => out.session = "open"
    /\ (out.pc = "returned" /\ out.listed /\ out.at_entry # {}) =>
          /\ out.attempts = 1
          /\ out.result = "true" <=> ~out.failed
          /\ out.failed => (out.passes = <<>> /\ out.session = "none")
          /\ ~out.failed => (out.passes = <<"sync", "devolucao">>
                             /\ out.session = "closed")

C14_Witness ==
    /\ out.pc = "returned"
    /\ out.result = "true"
    /\ out.upload_failures >= 2
    /\ out.uploads > out.upload_failures
    /\ out.passes = <<"sync", "devolucao">>

----------------------------------------------------------------------------
(* stock_sync.StockSync used as a context manager: __enter__, a call of     *)
(* upload_files in the body, __exit__                                       *)

MaxStock == 3

(* A with statement over StockSync(). *)
InitStock ==
    /\ SchedulerIdle
    /\ FilesIdle
    /\ prev = PrevIdle
    /\ route = RouteIdle
    /\ out = OutIdle
    /\ remote = RemoteIdle
    /\ inb = InbIdle
    /\ stock = [StockIdle EXCEPT !.pc = "enter_db"]

(* a with statement does not call __exit__ when __enter__ raises: the
   exception leaves the statement *)
EnterRaised(r, what) == [r EXCEPT !.pc = "returned", !.raised = what]

(* StockSync.__enter__, lines 36-37: DatabaseManager.__enter__ *)
StockEnterDb ==
    /\ stock.pc = "enter_db"
    /\ UNCHANGED <<schedVars, fileVars, prev, route, out, remote, inb>>
    /\ \E connected \in BOOLEAN :
         stock' = IF connected
                  THEN [stock EXCEPT !.pc = "enter_sftp", !.db = "open"]
                  ELSE EnterRaised(stock, "db connect")

(* StockSync.__enter__, lines 40-41: SftpManager.__enter__, which raises
   ValueError before the transport exists, or closes the transport and
   re-raises when the connection fails (manager.py lines 62-89) *)
StockEnterSftp ==
    /\ stock.pc = "enter_sftp"
    /\ UNCHANGED <<schedVars, fileVars, prev, route, out, remote, inb>>
    /\ \E result \in {"connected", "invalid host key", "connection failed"} :
         stock' = IF result = "connected"
                  THEN [stock EXCEPT !.pc = "mkdir", !.transport = "open"]
                  ELSE IF result = "invalid host key"
                  THEN EnterRaised(stock, result)
                  ELSE EnterRaised([stock EXCEPT !.transport = "closed"], result)

(* StockSync.__enter__, lines 44-47; the body then calls upload_files with
   any generated files *)
StockMkdirs ==
    /\ stock.pc = "mkdir"
    /\ UNCHANGED <<schedVars, fileVars, prev, route, out, remote, inb>>
    /\ \E oserror \in BOOLEAN, total \in BOOLEAN, stores \in 0..MaxStock :
         stock' = IF oserror THEN EnterRaised(stock, "mkdir")
                  ELSE [stock EXCEPT !.pc = IF ~total /\ stores = 0 THEN "exit"
                                            ELSE "upload",
                                     !.total_stock_file = total,
                                     !.store_files = stores,
                                     !.k = IF total THEN 0 ELSE 1]

(* upload_files, lines 218-233: the upload of one file and its move to the
   archive, which is outside any try; file 0 is the total stock file *)
StockUploadFile ==
    /\ stock.pc = "upload"
    /\ UNCHANGED <<schedVars, fileVars, prev, route, out, remote, inb>>
    /\ \E success \in BOOLEAN, move_raised \in BOOLEAN :
         /\ move_raised => success
         /\ LET r == [stock EXCEPT !.uploaded = Append(stock.uploaded, success)]
            IN  stock' = IF move_raised
                         THEN [r EXCEPT !.pc = "exit", !.raised = "move"]
                         ELSE IF stock.k < stock.store_files
                         THEN [r EXCEPT !.k = stock.k + 1]
                         ELSE [r EXCEPT !.pc = "exit"]

(* SftpManager.__exit__, manager.py lines 96-99 *)
sftp_exit(transport) == IF transport = "open" THEN "closed" ELSE transport

(* DatabaseManager.__exit__, database/manager.py lines 52-53 *)
db_exit(db) == IF db = "open" THEN "closed" ELSE db

(* StockSync.__exit__, lines 49-57 *)
StockExit ==
    /\ stock.pc = "exit"
    /\ UNCHANGED <<schedVars, fileVars, prev, route, out, remote, inb>>
    /\ stock' = [stock EXCEPT !.pc = "returned",
                              !.transport = sftp_exit(stock.transport),
                              !.db = db_exit(stock.db)]

NextStock ==
    StockEnterDb \/ StockEnterSftp \/ StockMkdirs \/ StockUploadFile \/ StockExit

SpecStock == InitStock /\ [][NextStock]_vars

(* C16: every relational connection and every transport session opened
   during a sync cycle is closed by the time the cycle returns, on every
   exit path: normal return, per-file failure, failure while opening the
   second resource after the first was opened, and exception inside the
   cycle. *)
C16_ResourcesReleased ==
    stock.pc = "returned" => (stock.db # "open" /\ stock.transport # "open")

----------------------------------------------------------------------------
(* Scheduler.start: the start-up, a malformed window, a KeyboardInterrupt *)

(* C17: at Scheduler.start the job callback is invoked exactly once before
   the first tick of the loop iff SCHEDULE_ENABLED and
   SCHEDULE_RUN_IMMEDIATELY and should_run() hold at start; when
   SCHEDULE_ENABLED is false, start returns without invoking any callback
   and without entering the tick loop. *)
C17_ImmediateRunOnce ==
    /\ ev.op = "start" =>
          /\ ev.jobCalled <=>
                /\ config.enabled
                /\ config.run_immediately
                /\ MonthOf(ev.at) \in config.months
                /\ WindowOpenAt(config, ev.at)
          /\ ~ev.postCalled
    /\ ev.op = "run_pending" => (first /\ ~ev.jobCalled /\ ~ev.postCalled)
    /\ ~config.enabled =>
          (pc \in {"init", "returned"} /\ ~ev.jobCalled /\ ~ev.postCalled)
    /\ pc = "returned" => ~config.enabled

C17_Witness ==
    /\ ev.op = "start"
    /\ ev.jobCalled
    /\ pc = "pending"
    /\ config.start > config.end

(* Scheduler.__init__ with a schedule window that strptime rejects; the
   values of the window and of the delay are never read *)
InitMalformed ==
    /\ config \in MalformedConfigs
    /\ config.start = 0 /\ config.end = 0 /\ config.delay = 0
    /\ now \in TimesOfDay
    /\ pc = "init"
    /\ first = TRUE
    /\ post_job_done = None
    /\ window_closed_timestamp = None
    /\ ev = NoEv
    /\ inv0 = NoInv
    /\ inv1 = NoInv
    /\ ticksSince = 0
    /\ invDates = {}
    /\ okDates = {}
    /\ closedSince = None
    /\ everOpen = FALSE
    /\ in_progress = 0
    /\ FilesIdle
    /\ CyclesIdle

SpecMalformed == InitMalformed /\ [][Next]_vars

(* C19: a malformed schedule window is fatal at startup: for every
   configuration (run-immediately on or off, current month allowed or not,
   post-job configured or not), Scheduler.start fails before the first
   iteration of the tick loop. *)
C19_FatalAtStartup ==
    (strptime_raises(config) /\ config.enabled) =>
        /\ pc \in {"init", "raised"}
        /\ pc = "raised" => ev.op = "start"

(* KeyboardInterrupt raised while scheduled_job runs the job callback:
   neither line 54 nor line 143 catches it, line 141 does *)
InterruptJob ==
    /\ pc = "pending"
    /\ ~first
    /\ ~should_run_raises(config, now)
    /\ scheduled_job(config, now)
    /\ pc' = "interrupted"
    /\ ev' = [NoEv EXCEPT !.op = "scheduled_job", !.at = now, !.result = TRUE,
                          !.jobCalled = TRUE, !.aborted = TRUE]
    /\ UNCHANGED <<config, in_progress, now, first, fieldVars, histVars, fileVars, cycleVars>>

(* KeyboardInterrupt raised while _handle_post_execution runs the post-job
   callback: line 109 does not catch it, line 141 does *)
InterruptPostJob ==
    /\ pc = "post"
    /\ ~handle_post_execution_raises(config, post_job_done, now)
    /\ handle_post_execution(config, post_job_done, window_closed_timestamp,
                             now, TRUE).called
    /\ pc' = "interrupted"
    /\ window_closed_timestamp' =
          IF window_closed_timestamp = None THEN now ELSE window_closed_timestamp
    /\ ev' = [NoEv EXCEPT !.op = "handle_post_execution", !.at = now,
                          !.postCalled = TRUE, !.aborted = TRUE,
                          !.donePre = post_job_done,
                          !.tsPre = window_closed_timestamp]
    /\ UNCHANGED <<config, in_progress, now, first, post_job_done, histVars, fileVars,
                   cycleVars>>

(* KeyboardInterrupt raised during time.sleep, line 140 *)
InterruptSleep ==
    /\ pc = "sleep"
    /\ pc' = "interrupted"
    /\ ev' = [NoEv EXCEPT !.op = "sleep", !.at = now]
    /\ UNCHANGED <<config, in_progress, now, first, fieldVars, histVars, fileVars, cycleVars>>

NextInterrupt == Next \/ InterruptJob \/ InterruptPostJob \/ InterruptSleep

SpecInterrupt == Init /\ [][NextInterrupt]_vars

(* C20: a KeyboardInterrupt arriving at any point of a tick ends the tick
   loop only after that tick's work has completed: a job callback or
   post-job callback in progress when the signal arrives runs to completion
   before start returns. *)
C20_InterruptAfterTickWork ==
    pc = "interrupted" => ~ev.aborted

----------------------------------------------------------------------------
(* _process_folder called a second time on the same directory *)

(* the second call, with the arguments of the first, on the directories as
   the first call left them *)
ProcessFolderAgain ==
    /\ fpc = "done"
    /\ out.pc = "idle"
    /\ prev.runs = 0
    /\ UNCHANGED <<schedVars, fs, existing, pass, route, out, remote, inb, stock>>
    /\ prev' = [runs |-> 1,
                listed |-> (all_files # <<>> \/ Present(fs[pass.source]) = {}),
                present |-> Present(fs[pass.source]),
                outcome |-> outcome,
                archived |-> { n \in Names : snap[n] # NoFile
                                             /\ fs["archive"][n] = snap[n] }]
    /\ fpc' = "enter"
    /\ all_files' = <<>>
    /\ idx' = 0
    /\ files_to_archive' = <<>>
    /\ snap' = EmptyDir
    /\ outcome' = [n \in Names |-> "none"]

NextRerun == NextFolder \/ ProcessFolderAgain

SpecRerun == InitFolder /\ [][NextRerun]_vars

(* the files the running call has attempted to upload *)
Attempted == { n \in Names : outcome[n] \in {"ok", "failed"} }

(* C18: a second run of _process_folder on the same directory, with no
   external change in between, attempts an upload for exactly the
   rule-matching files still present in the source directory, which are
   those whose upload failed the first time, and for no file already
   archived; when every matching file was archived by the first run, the
   second run performs zero uploads.  Stated for two runs that both listed
   the directory. *)
C18_RerunOnlyFailed ==
    (prev.runs = 1 /\ fpc = "done" /\ prev.listed /\ Enumerated = prev.present) =>
        /\ Attempted = { n \in prev.present : ~MatchesNoRule(n) }
        /\ Attempted = { n \in Names : prev.outcome[n] = "failed" }
        /\ Attempted \cap prev.archived = {}
        /\ (\A n \in Names : prev.outcome[n] \in {"ok", "failed"} =>
                               n \in prev.archived) => Attempted = {}

----------------------------------------------------------------------------
(* The loop of Scheduler.start, lines 134-140: one thread, one callback at a
   time *)

(* C21: at most one callback is in progress at any time: when a tick's work
   starts (run_pending) every callback called before has returned, also
   after a job callback that ran as long as or longer than the sleep of
   the loop, and when the post-job policy is evaluated the job callback of
   the tick has returned *)
C21_OneCallbackAtATime ==
    pc \in {"pending", "post"} => in_progress = 0

(* a job callback that took time has just returned to run_pending, and the
   post-job policy of the same tick is to be evaluated next *)
C21_Witness ==
    /\ pc = "post"
    /\ ev.op = "scheduled_job"
    /\ ev.jobCalled
    /\ now - ev.at = MaxDur
    /\ in_progress = 0

----------------------------------------------------------------------------
(* What leaves the two fields of the scheduler alone *)

(* C22: post_job_done and window_closed_timestamp are left unchanged by the
   evaluation of the main-job gate and the call of the job callback, whatever
   the callback does; by a post-job policy evaluation when no post-job
   callback is configured; and by a post-job policy evaluation when the
   post-job is not done today and the scheduler is disabled or the month is
   not allowed *)
C22_FrameEffect ==
    [][ /\ (pc \in {"init", "pending"} /\ pc' # pc) => UNCHANGED fieldVars
        /\ ( /\ pc = "post" /\ pc' # pc
             /\ \/ ~config.post_job_function
                \/ /\ post_job_done # DateOf(now)
                   /\ (~config.enabled \/ MonthOf(now) \notin config.months) )
           => UNCHANGED fieldVars ]_vars

(* a policy evaluation in a month that is not allowed found the timer
   running and left it running *)
C22_Witness ==
    /\ ev.op = "handle_post_execution"
    /\ ev.branch = "gated"
    /\ ev.tsPre # None
    /\ window_closed_timestamp = ev.tsPre
    /\ post_job_done = ev.donePre

----------------------------------------------------------------------------
(* The cooldown, lines 92-108 *)

(* C23: a policy tick that finds the timer set at T, with the scheduler
   enabled, the month allowed, the window closed and the post-job not done
   today, invokes nothing and leaves both fields unchanged when its time is
   before T + POST_EXECUTION_DELAY_MINUTES, and invokes the post-job (once)
   when its time is at or after T + delay: the elapsed time decides, not the
   number of ticks since T *)
C23_ElapsedTimeDecides ==
    ( /\ ev.op = "handle_post_execution"
      /\ ev.branch # "value_error"
      /\ ev.tsPre # None
      /\ config.post_job_function /\ config.enabled
      /\ MonthOf(ev.at) \in config.months
      /\ ~is_within_time_window(config, ev.at)
      /\ ev.donePre # DateOf(ev.at) )
    => IF ev.at - ev.tsPre < config.delay
       THEN /\ ~ev.postCalled
            /\ post_job_done = ev.donePre
            /\ window_closed_timestamp = ev.tsPre
       ELSE /\ ev.postCalled
            /\ inv1.t = ev.at
            /\ inv0.t # ev.at

(* the post-job fired on a tick later than T + delay *)
C23_Witness ==
    /\ ev.op = "handle_post_execution"
    /\ ev.postCalled
    /\ config.delay > 0
    /\ ev.at - ev.tsPre > config.delay

----------------------------------------------------------------------------
(* After a successful post-job, lines 68-73 and 104-108 *)

(* C24: after the post-job callback returned successfully on a tick of date
   D, every later policy tick of date D finds post_job_done = D and leaves
   it so, does not invoke the post-job, and leaves window_closed_timestamp
   null *)
C24_DoneForTheDay ==
    (ev.op = "handle_post_execution" /\ ev.dateHadSuccess) =>
        /\ ev.donePre = DateOf(ev.at)
        /\ post_job_done = DateOf(ev.at)
        /\ ~ev.postCalled
        /\ window_closed_timestamp = None

(* the first tick after the success, on the same date, found the timer
   still set and cleared it *)
C24_Witness ==
    /\ ev.op = "handle_post_execution"
    /\ ev.dateHadSuccess
    /\ ev.tsPre # None
    /\ window_closed_timestamp = None
    /\ post_job_done = DateOf(ev.at)

----------------------------------------------------------------------------
(* What one iteration of the loop evaluates, lines 123-140 *)

(* C25: on every tick of the loop, the first one after start included, the
   main-job gate (scheduled_job) is evaluated and then the post-job policy:
   no tick evaluates the post-job policy without having evaluated the
   main-job gate *)
C25_BothPoliciesEveryTick ==
    [][ (pc = "post" /\ pc' # pc) => ev.op = "scheduled_job" ]_vars

----------------------------------------------------------------------------
(* The two per-file loops: _process_folder, lines 74-91, and
   _download_files_from_remote_folder, lines 111-125 *)

(* one call of _process_folder, or one call of sync_sftp_to_local_folder *)
InitPasses == InitFolder \/ InitInbound

NextPasses == NextFolder \/ NextInbound

SpecPasses == InitPasses /\ [][NextPasses]_vars

(* the names that files_in_folder lists *)
Listed(r) == { r.files_in_folder[i] : i \in 1..Len(r.files_in_folder) }

(* C26: a per-file failure does not abort a pass.  In _process_folder every
   enumerated file that matches a rule gets exactly one upload attempt, and
   in _download_files_from_remote_folder every listed file gets exactly one
   download attempt, whatever the attempts on the files before it returned:
   an attempt is only made on a file not attempted yet, and when the loop
   is left (the session still there) no file is left without its attempt *)
C26_EveryFileOneAttempt ==
    [][ /\ fpc = "upload" =>
             /\ \A n \in Names :
                   outcome'[n] # outcome[n] => outcome[n] = "none"
             /\ fpc' # "upload" =>
                   \A n \in Enumerated :
                       ~MatchesNoRule(n) => outcome'[n] \in {"ok", "failed"}
        /\ inb.pc = "download" =>
             /\ \A n \in RNames :
                   inb'.download[n] # inb.download[n] => inb.download[n] = "none"
             /\ (inb'.pc # "download" /\ ~inb'.failed) =>
                   \A n \in Listed(inb) : inb'.download[n] \in {"ok", "failed"}
      ]_vars

(* an upload loop is over in which an attempt failed and the attempt on a
   later file succeeded *)
C26_Witness ==
    /\ fpc \in {"archive", "done"}
    /\ \E i, j \in 1..Len(all_files) :
          /\ i < j
          /\ outcome[all_files[i]] = "failed"
          /\ outcome[all_files[j]] = "ok"

----------------------------------------------------------------------------
(* _archive_processed_files after the upload loop, lines 28-49 and 94 *)

(* lines 42-46: another process removes an uploaded file from the source
   directory before its move *)
ExternalDelete ==
    /\ fpc = "archive"
    /\ \E i \in idx..Len(files_to_archive) :
         /\ fs[pass.source][files_to_archive[i]] # NoFile
         /\ fs' = [fs EXCEPT ![pass.source][files_to_archive[i]] = NoFile]
    /\ UNCHANGED <<schedVars, cycleVars, existing, pass, fpc, all_files, idx,
                   files_to_archive, snap, outcome>>

NextArchive == NextFolder \/ ExternalDelete

SpecArchive == InitFolder /\ [][NextArchive]_vars

(* C27: in _process_folder nothing is moved to the archive until the upload
   of every enumerated file has been attempted; then every successfully
   uploaded file still present in the source directory ends up in the
   archive directory under its name and is no longer in the source
   directory, and one that disappeared meanwhile is skipped, the archival
   going on with the others *)
C27_ArchiveAfterUploads ==
    [][ /\ fpc = "upload" => fs'["archive"] = fs["archive"]
        /\ (fpc = "archive" /\ (idx' # idx \/ fpc' # fpc)) =>
             LET filename == files_to_archive[idx]
             IN  /\ outcome[filename] = "ok"
                 /\ IF fs[pass.source][filename] # NoFile
                    THEN /\ fs'["archive"][filename] = fs[pass.source][filename]
                         /\ fs'[pass.source][filename] = NoFile
                    ELSE fs' = fs
                 /\ IF idx < Len(files_to_archive)
                    THEN fpc' = "archive" /\ idx' = idx + 1
                    ELSE fpc' = "done"
      ]_vars

----------------------------------------------------------------------------
(* The loop ticking at a fixed period, with callbacks that return at once *)

(* the process starts at the first slot of a day *)
InitTicking == Init /\ now = 0

(* one tick per slot: time passes in time.sleep only (line 140), and no
   callback raises *)
TickingStep ==
    /\ now' = IF pc = "sleep" THEN now + 1 ELSE now
    /\ pc' # "raised"
    /\ ~ev'.jobRaised
    /\ ~ev'.postRaised

NextTicking ==
    \/ Start /\ TickingStep
    \/ RunPending /\ TickingStep
    \/ HandlePostExecution /\ TickingStep
    \/ Sleep /\ TickingStep

SpecTicking == InitTicking /\ [][NextTicking]_vars

(* C28: while the scheduler keeps ticking, stays enabled and the post-job
   callback succeeds, a closure of the window on a day of an allowed month
   that leaves at least POST_EXECUTION_DELAY_MINUTES plus two tick intervals
   before the window reopens is followed by a post-job invocation after the
   closure and before the reopening: the tick that observes the window open
   again finds an invocation made since the closure *)
C28_PostJobAfterEveryClosure ==
    [][ ( /\ pc = "post" /\ pc' = "sleep"
          /\ config.post_job_function
          /\ is_within_time_window(config, now)
          /\ closedSince # None /\ closedSince > 0
          /\ MonthOf(closedSince) \in config.months
          /\ now - closedSince >= config.delay + 2 )
        => (inv1.t # None /\ inv1.t >= closedSince) ]_vars

----------------------------------------------------------------------------
(* The returns subfolder in an outbound cycle, lines 142-166 *)

(* C29: in an outbound cycle where every transport operation succeeds, each
   rule-matching file present in the returns subfolder is uploaded and
   archived in that cycle, whatever the main sync folder holds, also when
   it holds no regular file: when the cycle returns no such file is left in
   the returns subfolder *)
C29_ReturnsFolderProcessed ==
    (out.pc = "returned" /\ out.listed /\ ~out.failed /\ out.upload_failures = 0) =>
        \A n \in Names :
            get_remote_destination(n, devolucao_folder_rules) # NoDest =>
                fs["devolucao"][n] = NoFile

----------------------------------------------------------------------------
(* The local import directory in an inbound cycle, lines 111-125 and
   205-218: every polled folder is downloaded to local_download_dir /
   filename *)

(* C30: after an inbound cycle every remote file that was deleted has its
   content in the local import directory: the files deleted in a pass are
   in the directory, and no download of the cycle overwrites a file that an
   earlier download of the same cycle put there (two polled folders holding
   a file of the same name), its remote original deleted or not *)
C30_NoDownloadOverwritten ==
    [][ inb.pc = "download" =>
          LET filename == inb.files_in_folder[inb.k]
          IN  /\ inb'.deleted \subseteq inb'.local
              /\ inb'.download[filename] = "ok" => filename \notin inb.local
      ]_vars

----------------------------------------------------------------------------
(* A file uploaded by one cycle, in the next cycle *)

(* C31: over any sequence of outbound cycles a file whose upload once
   returned success is never uploaded again in a later cycle, also when its
   move to the archive directory failed: the second run of _process_folder
   on the directory attempts no file whose upload succeeded in the first *)
C31_NoSecondUpload ==
    prev.runs = 1 =>
        \A n \in Names : prev.outcome[n] = "ok" => n \notin Attempted

====
